---- MODULE Spec2Model ----
(***************************************************************************)
(* Model of the workflow dashboard of yt-agents (src/app.py): the          *)
(* process-wide registry WORKFLOWS and the request handlers that create a  *)
(* workflow, generate a step, approve or reject a step and run the final   *)
(* upload.  Every handler is one atomic action; the handlers are modelled  *)
(* for a logged-in session (the login check of check_session is outside    *)
(* the workflow state machine).                                            *)
(*                                                                         *)
(* The second part models the video storage of src/utils: the five         *)
(* backends behind one interface (SpecStorage), the file name save_video   *)
(* derives from a topic (SpecFilename) and the selection of the backend    *)
(* by get_video_storage (SpecSelect).                                      *)
(***************************************************************************)
EXTENDS Integers, Sequences, FiniteSets, TLC

(* ------------------------------ bounds --------------------------------- *)
\* number of distinct values str(uuid.uuid4())[:8] takes under Spec, where
\* requests address every step of a workflow
MaxIds == 1
\* number of distinct values it takes under SpecRegistry, where requests
\* address one step of several workflows
MaxRegistryIds == 2

(* ----------------------------- vocabulary ------------------------------ *)
WorkflowIds == 1..MaxIds
\* the ids a request URL carries: those uuid4 can produce and one (0) that
\* no workflow was ever stored under
RequestIds == 0..MaxIds
DefaultTopic == "AI in 2025"
Topics == {"Cats", DefaultTopic}

steps_order == <<"research", "script", "metadata", "video", "upload">>
StepNames == {steps_order[i] : i \in 1..Len(steps_order)}
\* a step name of a request URL that is no key of workflow['steps']
UnknownStep == "bogus"
RequestedSteps == StepNames \cup {UnknownStep}
\* the four steps final_upload checks, in the order it checks them
upload_gate == <<"research", "script", "metadata", "video">>
Statuses == {"pending", "completed", "approved", "rejected", "uploaded"}

\* request bodies: a JSON object, a JSON content type with an undecodable
\* body, a request that is not JSON at all
RequestKinds == {"json", "badjson", "nonjson"}
Methods == {"GET", "POST"}
\* outcome of the generation code of a step: it returns or it raises
GenOutcomes == {"ok", "raise"}

\* Python's None, as a step's data
None == [none |-> TRUE]

\* datetime.now().isoformat() and strftime("%Y%m%d_%H%M%S"): the value of a
\* time stamp is not modelled, only that the field carries one
Timestamp == "datetime.now()"

\* WORKFLOWS: the registry of app.py, workflow id -> workflow;
\* session: session['workflow_id'] of the client (0: not set).
\* What a handler answers, and the registry it leaves, are operators of the
\* state it runs in (start_response and after_start, ...); the answer is
\* not a variable.
VARIABLES WORKFLOWS, session

\* The storage of src/utils (SpecStorage):
\* backend: the class of the storage instance the process uses;
\* now: the wall clock, in ticks;
\* objects: the stored bytes, file name or object key -> [size, written];
\* metadata: the metadata records in the order the backend keeps them
\*   (dict order of self.metadata, row order of the videos table);
\* saves: per thread, the save_video call it is in the middle of.
VARIABLES backend, now, objects, metadata, saves

\* The file name derivation on its own (SpecFilename):
\* fn_topic: the topic passed to save_video; fn_filename: the name derived.
VARIABLES fn_topic, fn_filename

\* get_video_storage (SpecSelect):
\* storage_instance: the module global _storage_instance; constructed: the backend
\* instances built so far; selecting: per thread, its position in
\* get_video_storage; returned: per thread, what its last call returned.
VARIABLES storage_instance, constructed, selecting, returned

\* The command line pipeline of src/main.py (SpecPipeline):
\* runs: per run of create_video_workflow, its position, the stages it
\*   started, what each stage handed on and which audio its subtitles were
\*   timed against;
\* pipeline_files: the files under the fixed output paths, path -> content.
VARIABLES runs, pipeline_files

workflowVars == <<WORKFLOWS, session>>
storageVars == <<backend, now, objects, metadata, saves>>
filenameVars == <<fn_topic, fn_filename>>
selectVars == <<storage_instance, constructed, selecting, returned>>
pipelineVars == <<runs, pipeline_files>>

vars == <<WORKFLOWS, session, backend, now, objects, metadata, saves,
          fn_topic, fn_filename, storage_instance, constructed, selecting,
          returned, runs, pipeline_files>>

(* --------------------------- pure helpers ------------------------------ *)
\* mutant: the workflow is created with a sixth step
InitialSteps_Analytics ==
  [s \in StepNames \cup {"analytics"} |->
     [status |-> "pending", data |-> None]]

InitialSteps ==
  [s \in StepNames |-> [status |-> "pending", data |-> None]]

NewWorkflow(workflow_id, topic) ==
  [id |-> workflow_id, topic |-> topic, created_at |-> Timestamp,
   steps |-> InitialSteps]

ResearchData(topic) ==
  [summary |-> <<"Research findings on", topic>>,
   key_points |-> <<"Advanced reasoning capabilities",
                    "Multimodal understanding",
                    "Open-source accessibility", "Ethical frameworks">>,
   sources |-> <<"OpenAI", "DeepMind", "Google Research">>]

\* write_script returns the keys topic, style, hook, body, cta, scenes, so
\* the three .get() calls always yield their defaults
ScriptData(topic) ==
  [intro |-> <<"Welcome to", topic>>, segments |-> <<>>,
   outro |-> "Thanks for watching!"]

MetadataData(topic) ==
  [title |-> <<topic, ": Complete Guide 2025">>,
   description |-> <<"Explore the key aspects of", topic>>,
   tags |-> <<"AI", "technology", "future", "tutorial">>,
   keywords |-> <<"AI 2025", topic>>]

\* the video id is the timestamp of save_video, to the second
VideoData(has_ai_image) ==
  [status |-> "generated", file |-> <<"/api/videos/", Timestamp>>,
   video_id |-> Timestamp, created_at |-> Timestamp,
   message |-> <<"Video generated successfully", has_ai_image>>]

VideoErrorData ==
  [status |-> "error", error |-> "exception"]

UploadData(steps) ==
  [video_id |-> "dQw4w9WgXcQ", uploaded_at |-> Timestamp,
   title |-> steps["metadata"].data.title,
   description |-> steps["metadata"].data.description]

IndexOf(step) == CHOOSE i \in 1..Len(steps_order) : steps_order[i] = step

\* mutant: the step after the last one wraps around to the first
NextStepOf_Wrap(step) ==
  steps_order[(IndexOf(step) % Len(steps_order)) + 1]

NextStepOf(step) ==
  IF IndexOf(step) + 1 <= Len(steps_order)
  THEN steps_order[IndexOf(step) + 1] ELSE "None"

\* mutant: the loop of final_upload stops before the video step
UnapprovedGates_NoVideo(steps) ==
  {i \in 1..(Len(upload_gate) - 1) : steps[upload_gate[i]].status # "approved"}

UnapprovedGates(steps) ==
  {i \in 1..Len(upload_gate) : steps[upload_gate[i]].status # "approved"}

\* mutant: the loop reports the last step that is not approved
FirstUnapproved_Last(steps) ==
  IF UnapprovedGates(steps) = {} THEN "None"
  ELSE upload_gate[CHOOSE i \in UnapprovedGates(steps) :
                     \A j \in UnapprovedGates(steps) : i >= j]

\* the step the loop of final_upload returns on, "None" when it runs through
FirstUnapproved(steps) ==
  IF UnapprovedGates(steps) = {} THEN "None"
  ELSE upload_gate[CHOOSE i \in UnapprovedGates(steps) :
                     \A j \in UnapprovedGates(steps) : i <= j]

\* mutant: saving a step resets the steps after it to pending
CompletedStep_Cascade(steps, step, data) ==
  [s \in DOMAIN steps |->
     IF s = step
     THEN [status |-> "completed", data |-> data, completed_at |-> Timestamp]
     ELSE IF IndexOf(s) > IndexOf(step)
     THEN [status |-> "pending", data |-> None]
     ELSE steps[s]]

CompletedStep(steps, step, data) ==
  [steps EXCEPT ![step] =
     [status |-> "completed", data |-> data, completed_at |-> Timestamp]]

SetStatus(steps, step, status) ==
  [steps EXCEPT ![step] = [@ EXCEPT !.status = status]]

Store(workflow_id, workflow) ==
  [w \in DOMAIN WORKFLOWS \cup {workflow_id} |->
     IF w = workflow_id THEN workflow ELSE WORKFLOWS[w]]

(* ------------------------------- Init ---------------------------------- *)
\* the threads that run save_video, and those that run get_video_storage
SaveThreads == {"t1", "t2"}
SelectThreads == {"t1", "t2"}
\* a thread that is in no save_video call
NoSave == [pc |-> "idle"]

\* the state of each part before any of its operations ran
WorkflowIdle ==
  /\ WORKFLOWS = <<>>
  /\ session = 0

StorageIdle ==
  /\ backend = "filesystem"
  /\ now = 0
  /\ objects = <<>>
  /\ metadata = <<>>
  /\ saves = [t \in SaveThreads |-> NoSave]

FilenameIdle ==
  /\ fn_topic = <<>>
  /\ fn_filename = <<>>

SelectIdle ==
  /\ storage_instance = None
  /\ constructed = {}
  /\ selecting = [t \in SelectThreads |-> [pc |-> "idle"]]
  /\ returned = [t \in SelectThreads |-> None]

\* the runs of create_video_workflow, and a run that has not begun
Runs == {"r1", "r2"}
NoRun ==
  [pc |-> "idle", started |-> <<>>, handed |-> <<>>, timed_against |-> None]

PipelineIdle ==
  /\ runs = [r \in Runs |-> NoRun]
  /\ pipeline_files = <<>>

Init ==
  /\ WorkflowIdle
  /\ PipelineIdle
  /\ StorageIdle
  /\ FilenameIdle
  /\ SelectIdle

NotFound == [code |-> 404, error |-> "Workflow not found"]

(* --------------------------- start_workflow ---------------------------- *)
\* request.json of a request that is not JSON answers 415 (with an older
\* Flask it is None and data.get raises: 500); an undecodable body answers
\* 400.  Neither reaches the assignment to WORKFLOWS.
start_response(kind, topic, workflow_id) ==
  CASE kind = "json" ->
         {[code |-> 200, workflow_id |-> workflow_id, topic |-> topic]}
    [] kind = "badjson" -> {[code |-> 400, error |-> "request.json"]}
    [] kind = "nonjson" -> {[code |-> 415, error |-> "request.json"],
                            [code |-> 500, error |-> "request.json"]}

after_start(kind, topic, workflow_id) ==
  IF kind = "json"
  THEN Store(workflow_id, NewWorkflow(workflow_id, topic))
  ELSE WORKFLOWS

start_workflow(kind, topic, workflow_id) ==
  /\ WORKFLOWS' = after_start(kind, topic, workflow_id)
  /\ session' = IF kind = "json" THEN workflow_id ELSE session

(* ---------------------------- workflow_step ---------------------------- *)
\* the data the branch of `step` builds; the video branch catches its own
\* exceptions and builds the error payload instead
GeneratedData(step, topic, gen, has_ai_image) ==
  CASE step = "research" -> ResearchData(topic)
    [] step = "script" -> ScriptData(topic)
    [] step = "metadata" -> MetadataData(topic)
    [] step = "video" ->
         IF gen = "ok" THEN VideoData(has_ai_image) ELSE VideoErrorData

\* the steps the if/elif chain of the POST branch has a branch for
Generates(step) == step \in {"research", "script", "metadata", "video"}

\* the outer try block raised before the step was saved
GenerationRaises(step, gen) ==
  step \in {"research", "script", "metadata"} /\ gen = "raise"

\* whether the POST reaches "Save step data"
Saves(workflow_id, step, method, gen) ==
  /\ workflow_id \in DOMAIN WORKFLOWS
  /\ method = "POST"
  /\ Generates(step)
  /\ ~GenerationRaises(step, gen)

step_response(workflow_id, step, method, gen, has_ai_image) ==
  IF workflow_id \notin DOMAIN WORKFLOWS THEN NotFound
  ELSE IF method = "GET"
  THEN (IF step \in DOMAIN WORKFLOWS[workflow_id].steps
        THEN [code |-> 200, step |-> step,
              status |-> WORKFLOWS[workflow_id].steps[step].status,
              data |-> WORKFLOWS[workflow_id].steps[step].data]
        ELSE [code |-> 200, step |-> step, status |-> "None", data |-> None])
  ELSE IF ~Generates(step)
  THEN [code |-> 400, error |-> "Unknown step", step |-> step]
  ELSE IF GenerationRaises(step, gen)
  THEN [code |-> 500, error |-> "exception"]
  ELSE [code |-> 200, status |-> "success",
        data |-> GeneratedData(step, WORKFLOWS[workflow_id].topic, gen,
                               has_ai_image)]

after_step(workflow_id, step, method, gen, has_ai_image) ==
  IF Saves(workflow_id, step, method, gen)
  THEN [WORKFLOWS EXCEPT ![workflow_id].steps =
          CompletedStep(@, step,
            GeneratedData(step, WORKFLOWS[workflow_id].topic, gen,
                          has_ai_image))]
  ELSE WORKFLOWS

workflow_step(workflow_id, step, method, gen, has_ai_image) ==
  /\ WORKFLOWS' = after_step(workflow_id, step, method, gen, has_ai_image)
  /\ UNCHANGED session

(* ----------------------- approve_step, reject_step --------------------- *)
\* workflow['steps'][step] of a step that is no key raises KeyError, which
\* no handler catches: the request ends in a 500
KeyErrorResponse == [code |-> 500, error |-> "KeyError"]

\* whether the handler reaches its assignment to the step's status
Assigns(workflow_id, step) ==
  /\ workflow_id \in DOMAIN WORKFLOWS
  /\ step \in DOMAIN WORKFLOWS[workflow_id].steps

approve_response(workflow_id, step) ==
  IF workflow_id \notin DOMAIN WORKFLOWS THEN NotFound
  ELSE IF step \notin DOMAIN WORKFLOWS[workflow_id].steps
  THEN KeyErrorResponse
  ELSE [code |-> 200, status |-> "approved", next_step |-> NextStepOf(step)]

after_approve(workflow_id, step) ==
  IF Assigns(workflow_id, step)
  THEN [WORKFLOWS EXCEPT ![workflow_id].steps = SetStatus(@, step, "approved")]
  ELSE WORKFLOWS

approve_step(workflow_id, step) ==
  /\ WORKFLOWS' = after_approve(workflow_id, step)
  /\ UNCHANGED session

reject_response(workflow_id, step) ==
  IF workflow_id \notin DOMAIN WORKFLOWS THEN NotFound
  ELSE IF step \notin DOMAIN WORKFLOWS[workflow_id].steps
  THEN KeyErrorResponse
  ELSE [code |-> 200, status |-> "rejected"]

after_reject(workflow_id, step) ==
  IF Assigns(workflow_id, step)
  THEN [WORKFLOWS EXCEPT ![workflow_id].steps = SetStatus(@, step, "rejected")]
  ELSE WORKFLOWS

reject_step(workflow_id, step) ==
  /\ WORKFLOWS' = after_reject(workflow_id, step)
  /\ UNCHANGED session

(* ----------------------------- final_upload ---------------------------- *)
\* mutant: any data of the video step passes for a video file
HasVideoFile_AnyData(steps) == steps["video"].data # None

HasVideoFile(steps) == "file" \in DOMAIN steps["video"].data

\* the three subscripts of workflow['steps']['metadata']['data']
HasUploadFields(steps) ==
  {"title", "description", "tags"} \subseteq DOMAIN steps["metadata"].data

Uploaded(steps) ==
  [steps EXCEPT !["upload"] =
     [@ EXCEPT !.status = "uploaded", !.data = UploadData(steps)]]

\* what final_upload answers on an existing workflow; it writes the upload
\* step exactly when it answers 200
UploadOutcome(steps, kind) ==
  IF kind = "nonjson"
  THEN [code |-> 400, error |-> "Content-Type must be application/json"]
  ELSE IF kind = "badjson"
  THEN [code |-> 500, error |-> "exception"]
  ELSE IF FirstUnapproved(steps) # "None"
  THEN [code |-> 400, error |-> "Step not approved",
        step |-> FirstUnapproved(steps)]
  ELSE IF ~HasVideoFile(steps)
  THEN [code |-> 400, error |-> "No video file found"]
  ELSE IF ~HasUploadFields(steps)
  THEN [code |-> 500, error |-> "exception"]
  ELSE [code |-> 200, status |-> "uploaded", video_id |-> "dQw4w9WgXcQ"]

upload_response(workflow_id, kind) ==
  IF workflow_id \notin DOMAIN WORKFLOWS THEN NotFound
  ELSE UploadOutcome(WORKFLOWS[workflow_id].steps, kind)

\* mutant: the upload step is marked before the metadata is read
after_upload_MarkFirst(workflow_id, kind) ==
  IF upload_response(workflow_id, kind).code = 200
  THEN [WORKFLOWS EXCEPT ![workflow_id].steps = Uploaded(@)]
  ELSE IF /\ workflow_id \in DOMAIN WORKFLOWS
          /\ kind = "json"
          /\ FirstUnapproved(WORKFLOWS[workflow_id].steps) = "None"
          /\ HasVideoFile(WORKFLOWS[workflow_id].steps)
  THEN [WORKFLOWS EXCEPT ![workflow_id].steps["upload"].status = "uploaded"]
  ELSE WORKFLOWS

after_upload(workflow_id, kind) ==
  IF upload_response(workflow_id, kind).code = 200
  THEN [WORKFLOWS EXCEPT ![workflow_id].steps = Uploaded(@)]
  ELSE WORKFLOWS

final_upload(workflow_id, kind) ==
  /\ WORKFLOWS' = after_upload(workflow_id, kind)
  /\ UNCHANGED session

(* ----------------------------- specification --------------------------- *)
Next ==
  \/ \E kind \in RequestKinds, topic \in Topics, workflow_id \in WorkflowIds :
        /\ start_workflow(kind, topic, workflow_id)
        /\ UNCHANGED <<storageVars, filenameVars, selectVars, pipelineVars>>
  \/ \E workflow_id \in RequestIds, step \in RequestedSteps,
        method \in Methods, gen \in GenOutcomes, has_ai_image \in BOOLEAN :
        /\ workflow_step(workflow_id, step, method, gen, has_ai_image)
        /\ UNCHANGED <<storageVars, filenameVars, selectVars, pipelineVars>>
  \/ \E workflow_id \in RequestIds, step \in RequestedSteps :
        /\ approve_step(workflow_id, step)
        /\ UNCHANGED <<storageVars, filenameVars, selectVars, pipelineVars>>
  \/ \E workflow_id \in RequestIds, step \in RequestedSteps :
        /\ reject_step(workflow_id, step)
        /\ UNCHANGED <<storageVars, filenameVars, selectVars, pipelineVars>>
  \/ \E workflow_id \in RequestIds, kind \in RequestKinds :
        /\ final_upload(workflow_id, kind)
        /\ UNCHANGED <<storageVars, filenameVars, selectVars, pipelineVars>>

Spec == Init /\ [][Next]_vars

(* SpecRegistry: the same handlers on a registry of several workflows, the  *)
(* requests addressed to the research step or to an unknown step.           *)
RegistryIds == 1..MaxRegistryIds
RegistryRequestIds == 0..MaxRegistryIds
RegistrySteps == {"research", UnknownStep}

NextRegistry ==
  \/ \E kind \in RequestKinds, topic \in Topics, workflow_id \in RegistryIds :
        /\ start_workflow(kind, topic, workflow_id)
        /\ UNCHANGED <<storageVars, filenameVars, selectVars, pipelineVars>>
  \/ \E workflow_id \in RegistryRequestIds, step \in RegistrySteps,
        method \in Methods, gen \in GenOutcomes :
        /\ workflow_step(workflow_id, step, method, gen, FALSE)
        /\ UNCHANGED <<storageVars, filenameVars, selectVars, pipelineVars>>
  \/ \E workflow_id \in RegistryRequestIds, step \in RegistrySteps :
        /\ approve_step(workflow_id, step)
        /\ UNCHANGED <<storageVars, filenameVars, selectVars, pipelineVars>>
  \/ \E workflow_id \in RegistryRequestIds, step \in RegistrySteps :
        /\ reject_step(workflow_id, step)
        /\ UNCHANGED <<storageVars, filenameVars, selectVars, pipelineVars>>
  \/ \E workflow_id \in RegistryRequestIds, kind \in RequestKinds :
        /\ final_upload(workflow_id, kind)
        /\ UNCHANGED <<storageVars, filenameVars, selectVars, pipelineVars>>

SpecRegistry == Init /\ [][NextRegistry]_vars

(* ======================= src/utils: video storage ====================== *)
(* -------------------------------- bounds ------------------------------- *)
\* the wall clock runs from tick 0 to tick MaxTicks
MaxTicks == 2
\* ticks in one second: strftime("%Y%m%d_%H%M%S") keeps the second of a
\* time, isoformat() keeps the tick
TicksPerSecond == 2
\* len(video_data) is in 1..MaxSize
MaxSize == 2
\* a topic of SpecFilename: a run of letters followed by at most MaxTail
\* arbitrary characters
MaxTail == 2

(* ------------------------- the derived file name ----------------------- *)
\* topic[:30]
TopicPrefix == 30

\* Characters are one-character strings, a topic is a sequence of them.
\* str.isalnum() holds of letters and digits
Letters == {"A", "B", "m", "p"}
Digits == {"0", "1", "2", "3", "4", "5", "6", "7", "8", "9"}
isalnum(c) == c \in Letters \cup Digits
\* c in '-_ '
KeptPunctuation == {"-", "_", " "}
\* the characters the topics of SpecFilename are made of
TopicChars == {"A", "7", "-", "_", " ", "/", ".", "?"}

Min(a, b) == IF a < b THEN a ELSE b

\* topic[:n]
Prefix(topic, n) == SubSeq(topic, 1, Min(n, Len(topic)))

KeepsChar(c) == isalnum(c) \/ c \in KeptPunctuation

\* "".join(c for c in topic if c.isalnum() or c in '-_ '): no truncation
safe_topic_NoCut(topic) == SelectSeq(topic, KeepsChar)

\* "".join(c for c in topic[:30] if c.isalnum() or c in '-_ ')
safe_topic(topic) == SelectSeq(Prefix(topic, TopicPrefix), KeepsChar)

\* datetime.now().strftime("%Y%m%d_%H%M%S"): the time cut to its second
strftime(t) == t \div TicksPerSecond

\* datetime.now().isoformat()
isoformat(t) == t

\* the characters of a strftime value: digits (and one underscore)
TimestampChars(timestamp) == <<ToString(timestamp)>>

Extension == <<".", "m", "p", "4">>

\* f"{safe_topic}_{timestamp}.mp4"
Filename(topic, timestamp) ==
  safe_topic(topic) \o <<"_">> \o TimestampChars(timestamp) \o Extension

\* the topics of SpecFilename: 0, 29 or 30 letters, then a tail
Pad(n) == [i \in 1..n |-> "A"]
PadLengths == {0, TopicPrefix - 1, TopicPrefix}
Tails == UNION {[1..k -> TopicChars] : k \in 0..MaxTail}
FilenameTopics == {Pad(n) \o tail : n \in PadLengths, tail \in Tails}

\* lines 86-88 of save_video for the topic fn_topic at time t
derive_filename(t) ==
  /\ fn_filename' = Filename(fn_topic, strftime(t))
  /\ UNCHANGED fn_topic

InitFilename ==
  /\ WorkflowIdle
  /\ PipelineIdle
  /\ StorageIdle
  /\ SelectIdle
  /\ fn_topic \in FilenameTopics
  /\ fn_filename = <<>>

NextFilename ==
  \E t \in 0..MaxTicks :
     /\ derive_filename(t)
     /\ UNCHANGED <<workflowVars, storageVars, selectVars, pipelineVars>>

SpecFilename == InitFilename /\ [][NextFilename]_vars

(* ------------------------------ the backends --------------------------- *)
\* VideoStorage, SQLiteStorage, S3PostgresStorage, SupabaseStorage,
\* FirebaseStorage
Backends == {"filesystem", "sqlite", "s3", "supabase", "firebase"}
\* the backends that write the bytes with open(filepath, 'wb')
LocalBackends == {"filesystem", "sqlite"}
\* the topic videos are saved under
StorageTopics == {<<"A", "/">>}
\* len(video_data); the data of two calls differ exactly if their sizes do
Sizes == 1..MaxSize
\* whether a call of the file system, the database or the remote service
\* succeeds or fails (an exception, or an HTTP status that is no success)
IoOutcomes == {"ok", "fail"}
\* the ids the requests name: every strftime value of the run
RequestedVideoIds == 0..strftime(MaxTicks)

\* the metadata record save_video builds (duration, playable, url and
\* filepath, which repeat the call's arguments and the file name, left out)
VideoRecord(video_id, filename, topic, size, created_at) ==
  [id |-> video_id, filename |-> filename, topic |-> topic,
   file_size |-> size, created_at |-> created_at, status |-> "completed"]

Ids(meta) == {meta[i].id : i \in DOMAIN meta}
Position(meta, video_id) == CHOOSE i \in DOMAIN meta : meta[i].id = video_id

\* self.metadata.get(video_id), SELECT * FROM videos WHERE id = ?
InfoIn(meta, video_id) ==
  IF video_id \in Ids(meta) THEN meta[Position(meta, video_id)] ELSE None

\* del self.metadata[video_id], DELETE FROM videos WHERE id = ?
Without(meta, video_id) ==
  SelectSeq(meta, LAMBDA r : r.id # video_id)

\* self.metadata[video_id] = record, doc_ref.set(record): an existing key
\* keeps its place
Assigned(meta, r) ==
  IF r.id \in Ids(meta)
  THEN [meta EXCEPT ![Position(meta, r.id)] = r]
  ELSE Append(meta, r)

\* INSERT OR REPLACE INTO videos: the old row is deleted, the new one added
Replaced(meta, r) == Append(Without(meta, r.id), r)

\* INSERT ... ON CONFLICT (id) DO NOTHING
Ignored(meta, r) == IF r.id \in Ids(meta) THEN meta ELSE Append(meta, r)

\* the stored bytes after a key is written, and after it is removed
Put(objs, key, object) ==
  [k \in DOMAIN objs \cup {key} |-> IF k = key THEN object ELSE objs[k]]
Remove(objs, key) == [k \in DOMAIN objs \ {key} |-> objs[k]]

\* videos.sort(key=created_at, reverse=True), ORDER BY created_at DESC:
\* the records by created_at, newest first, equal ones in their stored order
RECURSIVE InsertDesc(_, _)
InsertDesc(sorted, r) ==
  IF sorted = <<>> THEN <<r>>
  ELSE IF Head(sorted).created_at >= r.created_at
       THEN <<Head(sorted)>> \o InsertDesc(Tail(sorted), r)
       ELSE <<r>> \o sorted

RECURSIVE SortedDesc(_)
SortedDesc(meta) ==
  IF meta = <<>> THEN <<>>
  ELSE InsertDesc(SortedDesc(SubSeq(meta, 1, Len(meta) - 1)), meta[Len(meta)])

\* a listing of the videos saved in the current second only
get_all_videos_Fresh(io) ==
  SelectSeq(SortedDesc(metadata),
            LAMBDA r : strftime(r.created_at) = strftime(now))

\* get_all_videos when it returns: the Supabase adapter sends
\* GET /videos?select=* with no order and answers a failed request with [],
\* the others sort by created_at descending
get_all_videos(io) ==
  IF backend = "supabase"
  THEN IF io = "ok" THEN metadata ELSE <<>>
  ELSE SortedDesc(metadata)

\* the backends whose failed read raises instead of returning
ReadRaises(io) == backend \in {"sqlite", "s3", "firebase"} /\ io = "fail"

\* get_video_info when it returns: the Supabase adapter answers a failed
\* request with None
get_video_info(video_id, io) ==
  IF backend = "supabase" /\ io = "fail" THEN None
  ELSE InfoIn(metadata, video_id)

(* ------------------------------- save_video ---------------------------- *)
\* lines 86-93: the time stamp and the file name are taken; the local
\* backends open the file for writing, which empties it
save_open(t, topic, size) ==
  /\ saves[t].pc = "idle"
  /\ saves' = [saves EXCEPT ![t] =
       [pc |-> "open", topic |-> topic, size |-> size,
        timestamp |-> strftime(now),
        filename |-> Filename(topic, strftime(now))]]
  /\ objects' = IF backend \in LocalBackends
                THEN Put(objects, Filename(topic, strftime(now)),
                         [size |-> size, written |-> 0])
                ELSE objects
  /\ UNCHANGED <<backend, now, metadata>>

\* f.write(video_data), put_object, PUT /object, upload_from_string: the
\* whole object is stored, or the call fails and save_video raises (a local
\* file then keeps what was written so far)
save_write(t, io) ==
  /\ saves[t].pc = "open"
  /\ IF io = "ok"
     THEN /\ objects' = Put(objects, saves[t].filename,
                            [size |-> saves[t].size, written |-> saves[t].size])
          /\ saves' = [saves EXCEPT ![t].pc = "written"]
     ELSE /\ UNCHANGED objects
          /\ saves' = [saves EXCEPT ![t] = NoSave]
  /\ UNCHANGED <<backend, now, metadata>>

\* the record the call of thread t builds
save_result(t) ==
  VideoRecord(saves[t].timestamp, saves[t].filename, saves[t].topic,
              saves[t].size, isoformat(now))

\* the metadata after the record is written
after_record(t, io) ==
  CASE backend = "filesystem" -> Assigned(metadata, save_result(t))
    [] backend = "sqlite" ->
         IF io = "ok" THEN Replaced(metadata, save_result(t)) ELSE metadata
    [] backend = "s3" ->
         IF io = "ok" THEN Ignored(metadata, save_result(t)) ELSE metadata
    [] backend = "supabase" ->
         IF io = "ok" /\ saves[t].timestamp \notin Ids(metadata)
         THEN Append(metadata, save_result(t)) ELSE metadata
    [] backend = "firebase" ->
         IF io = "ok" THEN Assigned(metadata, save_result(t)) ELSE metadata

\* whether save_video returns its record (TRUE) or raises: the Supabase
\* adapter returns the record also when the insert was refused
save_returns(io) == backend = "supabase" \/ io = "ok"

\* the metadata write and the return
save_record(t, io) ==
  /\ saves[t].pc = "written"
  /\ metadata' = after_record(t, io)
  /\ saves' = [saves EXCEPT ![t] = NoSave]
  /\ UNCHANGED <<backend, now, objects>>

(* ------------------------------ delete_video --------------------------- *)
\* the lookup raises, or finds the record to delete, or finds none: the
\* file system backend also wants the file to exist
DeleteProceeds(video_id, ioGet) ==
  /\ ~ReadRaises(ioGet)
  /\ get_video_info(video_id, ioGet) # None
  /\ backend = "filesystem" =>
       get_video_info(video_id, ioGet).filename \in DOMAIN objects

\* os.remove, delete_object and blob.delete raise when they fail; the
\* SQLite adapter passes over the failure, the Supabase adapter reads the
\* status later
ObjectRaises(ioObject) ==
  backend \in {"filesystem", "s3", "firebase"} /\ ioObject = "fail"

objects_after_delete(video_id, ioGet, ioObject) ==
  IF DeleteProceeds(video_id, ioGet) /\ ioObject = "ok"
  THEN Remove(objects, get_video_info(video_id, ioGet).filename)
  ELSE objects

metadata_after_delete(video_id, ioGet, ioObject, ioRow) ==
  IF /\ DeleteProceeds(video_id, ioGet)
     /\ ~ObjectRaises(ioObject)
     /\ backend = "filesystem" \/ ioRow = "ok"
  THEN Without(metadata, video_id)
  ELSE metadata

\* what delete_video returns: "true", "false", or "raise" for an exception
delete_result(video_id, ioGet, ioObject, ioRow) ==
  IF ReadRaises(ioGet) THEN "raise"
  ELSE IF ~DeleteProceeds(video_id, ioGet) THEN "false"
  ELSE IF ObjectRaises(ioObject) THEN "raise"
  ELSE IF backend = "supabase"
       THEN IF ioObject = "ok" /\ ioRow = "ok" THEN "true" ELSE "false"
  ELSE IF ioRow = "ok" THEN "true" ELSE "raise"

delete_video(video_id, ioGet, ioObject, ioRow) ==
  /\ objects' = objects_after_delete(video_id, ioGet, ioObject)
  /\ metadata' = metadata_after_delete(video_id, ioGet, ioObject, ioRow)
  /\ UNCHANGED <<backend, now, saves>>

(* --------------------------------- reads ------------------------------- *)
\* GET /api/videos/history: the listing is returned, the store is not
\* touched
video_history(io) ==
  UNCHANGED storageVars

\* GET /api/videos/<video_id>/metadata
video_metadata(video_id, io) ==
  UNCHANGED storageVars

\* time passes
tick ==
  /\ now < MaxTicks
  /\ now' = now + 1
  /\ UNCHANGED <<backend, objects, metadata, saves>>

InitStorage ==
  /\ WorkflowIdle
  /\ PipelineIdle
  /\ FilenameIdle
  /\ SelectIdle
  /\ backend \in Backends
  /\ now = 0
  /\ objects = <<>>
  /\ metadata = <<>>
  /\ saves = [t \in SaveThreads |-> NoSave]

NextStorage ==
  \/ \E t \in SaveThreads, topic \in StorageTopics, size \in Sizes :
        /\ save_open(t, topic, size)
        /\ UNCHANGED <<workflowVars, filenameVars, selectVars, pipelineVars>>
  \/ \E t \in SaveThreads, io \in IoOutcomes :
        /\ save_write(t, io)
        /\ UNCHANGED <<workflowVars, filenameVars, selectVars, pipelineVars>>
  \/ \E t \in SaveThreads, io \in IoOutcomes :
        /\ save_record(t, io)
        /\ UNCHANGED <<workflowVars, filenameVars, selectVars, pipelineVars>>
  \/ \E video_id \in RequestedVideoIds, ioGet \in IoOutcomes,
        ioObject \in IoOutcomes, ioRow \in IoOutcomes :
        /\ delete_video(video_id, ioGet, ioObject, ioRow)
        /\ UNCHANGED <<workflowVars, filenameVars, selectVars, pipelineVars>>
  \/ \E io \in IoOutcomes :
        /\ video_history(io)
        /\ UNCHANGED <<workflowVars, filenameVars, selectVars, pipelineVars>>
  \/ \E video_id \in RequestedVideoIds, io \in IoOutcomes :
        /\ video_metadata(video_id, io)
        /\ UNCHANGED <<workflowVars, filenameVars, selectVars, pipelineVars>>
  \/ /\ tick
     /\ UNCHANGED <<workflowVars, filenameVars, selectVars, pipelineVars>>

SpecStorage == InitStorage /\ [][NextStorage]_vars

(* --------------------------- get_video_storage ------------------------- *)
\* What a call finds in its environment:
\* firebase_env: FIREBASE_STORAGE_BUCKET is set;
\* firebase_ok: the google-cloud libraries load, FirebaseStorage() and the
\*   write test of create_firebase_storage_if_configured succeed;
\* s3_env: AWS_S3_BUCKET and DATABASE_URL are set;
\* s3_ok: boto3 and psycopg2 load and S3PostgresStorage() succeeds;
\* supabase_env: SUPABASE_URL and SUPABASE_KEY are set;
\* supabase_ok: the adapter module loads (its constructor only reads the
\*   two variables);
\* sqlite_ok: sqlite3 loads and opens videos.db;
\* videos_dir_ok: os.makedirs(Config.VIDEOS_DIR) succeeds, which
\*   SQLiteStorage() and VideoStorage() both call first.
Environments ==
  [firebase_env : BOOLEAN, firebase_ok : BOOLEAN,
   s3_env : BOOLEAN, s3_ok : BOOLEAN,
   supabase_env : BOOLEAN, supabase_ok : BOOLEAN,
   sqlite_ok : BOOLEAN, videos_dir_ok : BOOLEAN]

\* the priority list with S3+Postgres and Supabase exchanged
Selected_SupabaseFirst(env) ==
  IF env.firebase_env /\ env.firebase_ok THEN "firebase"
  ELSE IF env.supabase_env /\ env.supabase_ok THEN "supabase"
  ELSE IF env.s3_env /\ env.s3_ok THEN "s3"
  ELSE IF env.sqlite_ok /\ env.videos_dir_ok THEN "sqlite"
  ELSE IF env.videos_dir_ok THEN "filesystem"
  ELSE "raise"

\* lines 213-244: the class of the instance a selection builds, or "raise"
\* when VideoStorage() raises
Selected(env) ==
  IF env.firebase_env /\ env.firebase_ok THEN "firebase"
  ELSE IF env.s3_env /\ env.s3_ok THEN "s3"
  ELSE IF env.supabase_env /\ env.supabase_ok THEN "supabase"
  ELSE IF env.sqlite_ok /\ env.videos_dir_ok THEN "sqlite"
  ELSE IF env.videos_dir_ok THEN "filesystem"
  ELSE "raise"

\* a call of get_video_storage ended in an exception
Raised == [raised |-> TRUE]

\* the instance a selection builds: its class and which construction of
\* the process it is
NewInstance(kind) == [kind |-> kind, serial |-> Cardinality(constructed) + 1]

\* line 211, `if _storage_instance is None`: a set global is returned at
\* once (line 245), otherwise the selection starts
get_video_storage_check(t) ==
  /\ selecting[t].pc = "idle"
  /\ IF storage_instance = None
     THEN /\ selecting' = [selecting EXCEPT ![t] = [pc |-> "selecting"]]
          /\ UNCHANGED returned
     ELSE /\ returned' = [returned EXCEPT ![t] = storage_instance]
          /\ UNCHANGED selecting
  /\ UNCHANGED <<storage_instance, constructed>>

\* lines 213-244, up to the assignment: the factories are tried in turn
get_video_storage_construct(t, env) ==
  /\ selecting[t].pc = "selecting"
  /\ IF Selected(env) = "raise"
     THEN /\ selecting' = [selecting EXCEPT ![t] = [pc |-> "idle"]]
          /\ returned' = [returned EXCEPT ![t] = Raised]
          /\ UNCHANGED constructed
     ELSE /\ selecting' = [selecting EXCEPT ![t] =
               [pc |-> "built", mine |-> NewInstance(Selected(env))]]
          /\ constructed' = constructed \cup {NewInstance(Selected(env))}
          /\ UNCHANGED returned
  /\ UNCHANGED storage_instance

\* `_storage_instance = ...`
get_video_storage_assign(t) ==
  /\ selecting[t].pc = "built"
  /\ storage_instance' = selecting[t].mine
  /\ selecting' = [selecting EXCEPT ![t] = [pc |-> "assigned"]]
  /\ UNCHANGED <<constructed, returned>>

\* `return _storage_instance`: the global is read again
get_video_storage_return(t) ==
  /\ selecting[t].pc = "assigned"
  /\ returned' = [returned EXCEPT ![t] = storage_instance]
  /\ selecting' = [selecting EXCEPT ![t] = [pc |-> "idle"]]
  /\ UNCHANGED <<storage_instance, constructed>>

InitSelect ==
  /\ WorkflowIdle
  /\ PipelineIdle
  /\ StorageIdle
  /\ FilenameIdle
  /\ SelectIdle

NextSelect ==
  \/ \E t \in SelectThreads :
        /\ get_video_storage_check(t)
        /\ UNCHANGED <<workflowVars, storageVars, filenameVars, pipelineVars>>
  \/ \E t \in SelectThreads, env \in Environments :
        /\ get_video_storage_construct(t, env)
        /\ UNCHANGED <<workflowVars, storageVars, filenameVars, pipelineVars>>
  \/ \E t \in SelectThreads :
        /\ get_video_storage_assign(t)
        /\ UNCHANGED <<workflowVars, storageVars, filenameVars, pipelineVars>>
  \/ \E t \in SelectThreads :
        /\ get_video_storage_return(t)
        /\ UNCHANGED <<workflowVars, storageVars, filenameVars, pipelineVars>>

SpecSelect == InitSelect /\ [][NextSelect]_vars

(* ============================ the claims ============================== *)
StepsOf(w) == WORKFLOWS[w].steps
StatusIn(w, step) == WORKFLOWS[w].steps[step].status
FiveSteps == {"research", "script", "metadata", "video", "upload"}
GateSteps == {"research", "script", "metadata", "video"}
AllGatesApproved(w) == \A g \in GateSteps : StatusIn(w, g) = "approved"

\* C1: approve_step on a step whose status is not `completed` is refused
\* (no 200 answer) and leaves the registry as it was.
C1_ApproveOnlyCompleted ==
  [][\A w \in RequestIds, step \in FiveSteps :
       (/\ w \in DOMAIN WORKFLOWS
        /\ StatusIn(w, step) # "completed"
        /\ approve_step(w, step))
       => (WORKFLOWS' = WORKFLOWS /\ approve_response(w, step).code # 200)]_vars

\* the first step, in the order research, script, metadata, video, that is
\* not approved
ExpectedUnmet(w) ==
  IF StatusIn(w, "research") # "approved" THEN "research"
  ELSE IF StatusIn(w, "script") # "approved" THEN "script"
  ELSE IF StatusIn(w, "metadata") # "approved" THEN "metadata"
  ELSE "video"

NamesFirstUnmet(w, kind) ==
  /\ upload_response(w, kind).code = 400
  /\ upload_response(w, kind).error = "Step not approved"
  /\ upload_response(w, kind).step = ExpectedUnmet(w)

\* C2 (as amended): when any of research, script, metadata, video is not
\* approved, final_upload with a decodable JSON request answers the
\* precondition error that names the first unmet step in that order.
C2_JsonUploadNamesFirstUnmet ==
  \A w \in DOMAIN WORKFLOWS :
    ~AllGatesApproved(w) => NamesFirstUnmet(w, "json")

\* C2 (as stated): the same of every final_upload request, whatever its body.
C2_UploadNamesFirstUnmet ==
  \A w \in DOMAIN WORKFLOWS, kind \in RequestKinds :
    ~AllGatesApproved(w) => NamesFirstUnmet(w, kind)

C2_Witness ==
  \E w \in DOMAIN WORKFLOWS :
    /\ StatusIn(w, "metadata") = "completed"
    /\ \A g \in {"research", "script", "video"} : StatusIn(w, g) = "approved"
    /\ upload_response(w, "json").code = 400
    /\ upload_response(w, "json").step = "metadata"

\* C3: the upload step becomes `uploaded` only by a final_upload taken where
\* research, script, metadata and video are all approved, and that step
\* stores the publish result as the upload step's data.
C3_UploadedOnlyByFinalUpload ==
  [][\A w \in DOMAIN WORKFLOWS' :
       (/\ WORKFLOWS'[w].steps["upload"].status = "uploaded"
        /\ ~(w \in DOMAIN WORKFLOWS /\ StatusIn(w, "upload") = "uploaded"))
       => (/\ w \in DOMAIN WORKFLOWS
           /\ AllGatesApproved(w)
           /\ final_upload(w, "json")
           /\ WORKFLOWS'[w].steps["upload"].data =
                [video_id |-> "dQw4w9WgXcQ", uploaded_at |-> Timestamp,
                 title |-> StepsOf(w)["metadata"].data.title,
                 description |-> StepsOf(w)["metadata"].data.description])]_vars

C3_Witness ==
  \E w \in DOMAIN WORKFLOWS :
    /\ StatusIn(w, "upload") = "uploaded"
    /\ StepsOf(w)["upload"].data.video_id = "dQw4w9WgXcQ"
    /\ AllGatesApproved(w)

\* C4: every stored workflow has exactly the five steps research, script,
\* metadata, video, upload, each with one of the five statuses, and the
\* workflow that start_workflow stores has all five pending.
C4_FiveStepsAlways ==
  /\ \A w \in DOMAIN WORKFLOWS :
       /\ DOMAIN StepsOf(w) = FiveSteps
       /\ \A step \in FiveSteps :
            StatusIn(w, step) \in
              {"pending", "completed", "approved", "rejected", "uploaded"}
  /\ \A w \in WorkflowIds, topic \in Topics :
       /\ DOMAIN after_start("json", topic, w)[w].steps = FiveSteps
       /\ \A step \in FiveSteps :
            after_start("json", topic, w)[w].steps[step].status = "pending"

C4_Witness ==
  \E w \in DOMAIN WORKFLOWS :
    /\ DOMAIN StepsOf(w) = FiveSteps
    /\ StatusIn(w, "research") = "rejected"
    /\ StatusIn(w, "script") = "completed"
    /\ StatusIn(w, "metadata") = "approved"
    /\ StatusIn(w, "video") = "approved"
    /\ StatusIn(w, "upload") = "uploaded"

\* C5: reject_step sets `rejected` only on a step whose status is
\* `completed`; on a step in any other status it changes nothing.
C5_RejectOnlyCompleted ==
  [][\A w \in RequestIds, step \in FiveSteps :
       (/\ w \in DOMAIN WORKFLOWS
        /\ StatusIn(w, step) # "completed"
        /\ reject_step(w, step))
       => (WORKFLOWS' = WORKFLOWS /\ reject_response(w, step).code # 200)]_vars

PredecessorOf(step) ==
  CASE step = "script" -> "research"
    [] step = "metadata" -> "script"
    [] step = "video" -> "metadata"

\* C6: a step goes from pending to completed only where the step before it
\* in the order research, script, metadata, video is approved.
C6_CompletedAfterPredecessorApproved ==
  [][\A w \in DOMAIN WORKFLOWS \cap DOMAIN WORKFLOWS',
        step \in {"script", "metadata", "video"} :
       (/\ StatusIn(w, step) = "pending"
        /\ WORKFLOWS'[w].steps[step].status = "completed")
       => StatusIn(w, PredecessorOf(step)) = "approved"]_vars

\* the steps of workflow w after a POST of `step` that reaches the save
StepsAfterPost(w, step, gen, has_ai_image) ==
  after_step(w, step, "POST", gen, has_ai_image)[w].steps

\* C7: a POST of a step whose generation does not raise sets that step,
\* whatever its status was, to `completed` with the generated data and a
\* completed_at stamp, and leaves every other step of the workflow as it was.
C7_CompleteOverwritesOnlyItsStep ==
  \A w \in DOMAIN WORKFLOWS, step \in GateSteps, gen \in GenOutcomes,
     has_ai_image \in BOOLEAN :
    (gen = "raise" => step = "video") =>
      /\ StepsAfterPost(w, step, gen, has_ai_image)[step].status = "completed"
      /\ DOMAIN StepsAfterPost(w, step, gen, has_ai_image)[step] =
           {"status", "data", "completed_at"}
      /\ StepsAfterPost(w, step, gen, has_ai_image)[step].data # None
      /\ StepsAfterPost(w, step, gen, has_ai_image)[step].data =
           step_response(w, step, "POST", gen, has_ai_image).data
      /\ \A other \in FiveSteps \ {step} :
           StepsAfterPost(w, step, gen, has_ai_image)[other] = StepsOf(w)[other]

\* a step that was approved when the upload went through is `completed`
\* again, and the approvals after it and the upload are still in place
C7_Witness ==
  \E w \in DOMAIN WORKFLOWS :
    /\ StatusIn(w, "research") = "completed"
    /\ "completed_at" \in DOMAIN StepsOf(w)["research"]
    /\ \A g \in {"script", "metadata", "video"} : StatusIn(w, g) = "approved"
    /\ StatusIn(w, "upload") = "uploaded"

ExpectedNext(step) ==
  CASE step = "research" -> "script"
    [] step = "script" -> "metadata"
    [] step = "metadata" -> "video"
    [] step = "video" -> "upload"
    [] step = "upload" -> "None"

\* C8: approve_step on a step of a stored workflow answers the name that
\* follows the step in research, script, metadata, video, upload, and none
\* for upload.
C8_ApproveReturnsNextStep ==
  \A w \in DOMAIN WORKFLOWS, step \in FiveSteps :
    /\ approve_response(w, step).code = 200
    /\ approve_response(w, step).next_step = ExpectedNext(step)

C8_Witness ==
  \E w \in DOMAIN WORKFLOWS :
    /\ StatusIn(w, "research") = "approved"
    /\ StatusIn(w, "script") = "pending"
    /\ approve_response(w, "research").next_step = "script"
    /\ approve_response(w, "upload").next_step = "None"

\* a 404, or the 400 that says the step is unknown
NotFoundCondition(r) ==
  r.code = 404 \/ (r.code = 400 /\ r.error = "Unknown step")

\* C9: a request that addresses an unknown workflow id or an unknown step
\* name is answered with a not-found condition, whatever the operation.
C9_UnknownIsNotFound ==
  \A w \in RegistryRequestIds, step \in FiveSteps \cup {UnknownStep} :
    (w \notin DOMAIN WORKFLOWS \/ step \notin FiveSteps) =>
      /\ \A method \in Methods :
           NotFoundCondition(step_response(w, step, method, "ok", FALSE))
      /\ NotFoundCondition(approve_response(w, step))
      /\ NotFoundCondition(reject_response(w, step))

\* C10: start_workflow stores the new workflow under an id no stored
\* workflow has, and every workflow stored before is still stored, the same.
C10_StartKeepsEarlierWorkflows ==
  [][\A topic \in Topics, w \in RegistryIds :
       start_workflow("json", topic, w) =>
         /\ w \notin DOMAIN WORKFLOWS
         /\ \A earlier \in DOMAIN WORKFLOWS :
              /\ earlier \in DOMAIN WORKFLOWS'
              /\ WORKFLOWS'[earlier] = WORKFLOWS[earlier]]_vars


(* ===================== the claims on the video storage ================= *)
\* C11: when save_video returns a record r (every request of the call
\* succeeding), get_video_info(r.id) finds a record whose file_size is the
\* length of the bytes passed in and whose topic is the topic passed in.
C11_SaveThenInfoRoundTrip ==
  [][\A t \in SaveThreads :
       save_record(t, "ok") =>
         /\ InfoIn(metadata', save_result(t).id) # None
         /\ InfoIn(metadata', save_result(t).id).file_size = saves[t].size
         /\ InfoIn(metadata', save_result(t).id).topic = saves[t].topic]_vars

\* an earlier save_video of the same topic took its time stamp in the
\* second in which the call of thread t took its own
SavedInSameSecond(t) ==
  \E i \in DOMAIN metadata :
     /\ metadata[i].id = saves[t].timestamp
     /\ metadata[i].topic = saves[t].topic

\* C12: a save_video of a topic that follows, within one second, a
\* save_video of the same topic gets a file name of its own and adds a
\* record of its own: the earlier record stays as it was and both are
\* listed.
C12_SameSecondSavesStayApart ==
  [][\A t \in SaveThreads :
       (save_record(t, "ok") /\ SavedInSameSecond(t)) =>
         /\ \A i \in DOMAIN metadata :
              metadata[i].filename # saves[t].filename
         /\ Len(metadata') = Len(metadata) + 1
         /\ \A i \in DOMAIN metadata : metadata'[i] = metadata[i]]_vars

\* C13: delete_video of an id that has no record returns false and changes
\* neither the records nor the stored bytes; delete_video of an id that has
\* a record returns true and get_video_info of the id finds nothing
\* afterwards (every request of the call succeeding).
C13_DeleteKnownAndUnknown ==
  \A video_id \in RequestedVideoIds :
     IF video_id \in Ids(metadata)
     THEN /\ delete_result(video_id, "ok", "ok", "ok") = "true"
          /\ InfoIn(metadata_after_delete(video_id, "ok", "ok", "ok"),
                    video_id) = None
     ELSE /\ delete_result(video_id, "ok", "ok", "ok") = "false"
          /\ objects_after_delete(video_id, "ok", "ok") = objects
          /\ metadata_after_delete(video_id, "ok", "ok", "ok") = metadata

\* the bytes a record names are stored in full
FullyWritten(r) ==
  /\ r.filename \in DOMAIN objects
  /\ objects[r.filename].written = objects[r.filename].size

\* C14: in every state, every record that get_all_videos lists as
\* `completed` names bytes that are stored in full.
C14_CompletedMeansFullyWritten ==
  \A i \in DOMAIN get_all_videos("ok") :
     get_all_videos("ok")[i].status = "completed" =>
       FullyWritten(get_all_videos("ok")[i])

\* C15: get_all_videos lists the records by created_at, newest first, and
\* records of equal created_at in the order they were stored in.
C15_NewestFirst ==
  \A i, j \in DOMAIN get_all_videos("ok") :
     i < j =>
       \/ get_all_videos("ok")[i].created_at > get_all_videos("ok")[j].created_at
       \/ /\ get_all_videos("ok")[i].created_at =
               get_all_videos("ok")[j].created_at
          /\ Position(metadata, get_all_videos("ok")[i].id) <
               Position(metadata, get_all_videos("ok")[j].id)

\* get_all_videos returns with this outcome (it does not raise)
ListReturns(io) == ~ReadRaises(io)
\* get_all_videos returns what it read from the stored records
ListAnswered(io) == ListReturns(io) /\ ~(backend = "supabase" /\ io = "fail")

\* a step that writes neither a record nor bytes (a call of get_all_videos
\* is one: video_history) leaves the list that get_all_videos reads from
\* the stored records as it was
ListingKeptByOtherSteps ==
  UNCHANGED <<objects, metadata>> =>
    get_all_videos("ok")' = get_all_videos("ok")

Stem(filename) == SubSeq(filename, 1, Len(filename) - Len(Extension))
TopicPart(filename) == SubSeq(filename, 1, Len(filename) - Len(Extension) - 2)
\* the positions of the first TopicPrefix characters of a topic that hold
\* an alphanumeric, a hyphen, an underscore or a space
KeptPositions(topic) ==
  {i \in 1..Min(Len(topic), TopicPrefix) : KeepsChar(topic[i])}

\* C17 as stated: every character of the file name is an alphanumeric, a
\* hyphen, an underscore or a space.
C17_FilenameOnlySafeChars ==
  fn_filename # <<>> =>
    \A i \in DOMAIN fn_filename : KeepsChar(fn_filename[i])

\* C17, amended: the file name ends in ".mp4"; every character before
\* that extension is an alphanumeric, a hyphen, an underscore or a space;
\* and the part before "_<time stamp>" is made of the characters of that
\* kind among the first 30 of the topic, in their order.
C17_FilenameStemOnlySafeChars ==
  fn_filename # <<>> =>
    /\ SubSeq(fn_filename, Len(Stem(fn_filename)) + 1, Len(fn_filename))
         = Extension
    /\ \A i \in DOMAIN Stem(fn_filename) : KeepsChar(Stem(fn_filename)[i])
    /\ Len(TopicPart(fn_filename)) = Cardinality(KeptPositions(fn_topic))
    /\ \A i \in KeptPositions(fn_topic) :
         TopicPart(fn_filename)
           [Cardinality({j \in KeptPositions(fn_topic) : j <= i})] = fn_topic[i]

\* a name was derived from a topic of more than 30 characters that holds a
\* path separator among the first 30 and a kept character after them
C17_Witness ==
  /\ fn_filename # <<>>
  /\ Len(fn_topic) > TopicPrefix
  /\ fn_topic[TopicPrefix] = "/"
  /\ KeepsChar(fn_topic[TopicPrefix + 1])


\* C18: no call of get_video_storage ends in an exception, whichever
\* backends are configured and whichever of the Firebase, S3+Postgres,
\* Supabase and SQLite constructors fail.
C18_SelectionNeverRaises ==
  \A t \in SelectThreads : returned[t] # Raised

\* the priority list, and what makes a backend of it usable in an
\* environment: it is configured and it initialises
Priority == <<"firebase", "s3", "supabase", "sqlite", "filesystem">>
Configured(env, kind) ==
  CASE kind = "firebase" -> env.firebase_env
    [] kind = "s3" -> env.s3_env
    [] kind = "supabase" -> env.supabase_env
    [] OTHER -> TRUE
Initialises(env, kind) ==
  CASE kind = "firebase" -> env.firebase_ok
    [] kind = "s3" -> env.s3_ok
    [] kind = "supabase" -> env.supabase_ok
    [] kind = "sqlite" -> env.sqlite_ok /\ env.videos_dir_ok
    [] kind = "filesystem" -> env.videos_dir_ok
Usable(env, kind) == Configured(env, kind) /\ Initialises(env, kind)

C20_OneInstancePerProcess ==
  /\ Cardinality(constructed) <= 1
  /\ \A t \in SelectThreads :
       returned[t] \in {None, Raised} \/ returned[t] \in constructed

(* -------------------------------- C21 ---------------------------------- *)
\* delete_video reaches the deletion of the metadata row: the lookup found
\* the record and the deletion of the object did not raise
AttemptsRowDeletion(video_id, ioGet, ioObject) ==
  DeleteProceeds(video_id, ioGet) /\ ~ObjectRaises(ioObject)

\* the stored file of a record is there to be deleted
HasObject(video_id) ==
  /\ InfoIn(metadata, video_id) # None
  /\ InfoIn(metadata, video_id).filename \in DOMAIN objects

\* C21: delete_video on a known id attempts the deletion of the metadata
\* even when the deletion of the object fails, returns true only if both
\* deletions succeeded, and reports the failure of either of them (false or
\* an error).
C21_DeleteReportsPartialFailure ==
  \A video_id \in RequestedVideoIds, ioObject \in IoOutcomes,
     ioRow \in IoOutcomes :
     HasObject(video_id) =>
       /\ AttemptsRowDeletion(video_id, "ok", ioObject)
       /\ delete_result(video_id, "ok", ioObject, ioRow) = "true" =>
            ioObject = "ok" /\ ioRow = "ok"
       /\ ioObject = "fail" \/ ioRow = "fail" =>
            delete_result(video_id, "ok", ioObject, ioRow) \in {"false", "raise"}

(* ---------------------------- update_metadata -------------------------- *)
\* the updates a caller passes: none, one field, two fields
Updates ==
  { <<>>,
    [status |-> "archived"],
    [status |-> "archived", topic |-> <<"B">>] }

\* what a PATCH that matches no row answers: the empty list of rows
EmptyList == [empty_list |-> TRUE]

\* UPDATE videos SET k = v, ... ; PATCH /videos; doc_ref.update(updates)
Updated(r, updates) ==
  [f \in DOMAIN r |-> IF f \in DOMAIN updates THEN updates[f] ELSE r[f]]

\* VideoStorage has no update_metadata: the call raises AttributeError
HasUpdateMetadata == backend # "filesystem"

\* the stored records after update_metadata(video_id, updates)
metadata_after_update(video_id, updates, io) ==
  IF /\ HasUpdateMetadata
     /\ updates # <<>>
     /\ io = "ok"
     /\ video_id \in Ids(metadata)
  THEN [metadata EXCEPT ![Position(metadata, video_id)] =
          Updated(metadata[Position(metadata, video_id)], updates)]
  ELSE metadata

\* what update_metadata returns, Raised for an exception:
\* - with no updates every adapter but Firebase's returns get_video_info;
\* - the SQLite and S3 adapters return the row, or None if there is none,
\*   and raise when the statement fails;
\* - the Supabase adapter returns the first row of the answer, the empty
\*   answer itself if no row matched, None if the request is refused;
\* - the Firebase adapter's doc_ref.update raises on a missing document.
update_result(video_id, updates, io) ==
  IF ~HasUpdateMetadata THEN Raised
  ELSE IF updates = <<>> /\ backend # "firebase"
       THEN IF ReadRaises(io) THEN Raised ELSE get_video_info(video_id, io)
  ELSE IF backend = "supabase"
       THEN IF io = "fail" THEN None
            ELSE IF video_id \in Ids(metadata)
                 THEN InfoIn(metadata_after_update(video_id, updates, io),
                             video_id)
                 ELSE EmptyList
  ELSE IF io = "fail" THEN Raised
  ELSE IF backend = "firebase" /\ video_id \notin Ids(metadata) THEN Raised
  ELSE InfoIn(metadata_after_update(video_id, updates, io), video_id)

update_metadata(video_id, updates, io) ==
  /\ metadata' = metadata_after_update(video_id, updates, io)
  /\ UNCHANGED <<backend, now, objects, saves>>

\* the storage with update_metadata: one thread ("t1") saves, records are
\* updated
NextUpdate ==
  \/ \E topic \in StorageTopics, size \in Sizes :
        /\ save_open("t1", topic, size)
        /\ UNCHANGED <<workflowVars, filenameVars, selectVars, pipelineVars>>
  \/ \E io \in IoOutcomes :
        /\ save_write("t1", io)
        /\ UNCHANGED <<workflowVars, filenameVars, selectVars, pipelineVars>>
  \/ \E io \in IoOutcomes :
        /\ save_record("t1", io)
        /\ UNCHANGED <<workflowVars, filenameVars, selectVars, pipelineVars>>
  \/ \E video_id \in RequestedVideoIds, updates \in Updates,
        io \in IoOutcomes :
        /\ update_metadata(video_id, updates, io)
        /\ UNCHANGED <<workflowVars, filenameVars, selectVars, pipelineVars>>
  \/ /\ tick
     /\ UNCHANGED <<workflowVars, filenameVars, selectVars, pipelineVars>>

SpecUpdate == InitStorage /\ [][NextUpdate]_vars

(* -------------------------------- C22 ---------------------------------- *)
\* record r is record old with exactly the fields of updates changed
OnlyNamedFieldsChanged(old, r, updates) ==
  /\ DOMAIN r = DOMAIN old
  /\ \A f \in DOMAIN old :
       r[f] = IF f \in DOMAIN updates THEN updates[f] ELSE old[f]

\* C22: on every backend update_metadata(id, updates), all requests
\* succeeding, changes for a known id exactly the named fields of that
\* record, leaves the other records alone and returns the updated record;
\* for an unknown id it returns none and changes nothing.  (The stored
\* bytes are not touched by any implementation.)
C22_UpdateChangesOnlyNamedFields ==
  \A video_id \in RequestedVideoIds, updates \in Updates :
     LET after == metadata_after_update(video_id, updates, "ok")
         result == update_result(video_id, updates, "ok")
     IN  IF video_id \in Ids(metadata)
         THEN /\ Len(after) = Len(metadata)
              /\ \A i \in DOMAIN metadata :
                   IF metadata[i].id = video_id
                   THEN /\ OnlyNamedFieldsChanged(metadata[i], after[i], updates)
                        /\ result = after[i]
                   ELSE after[i] = metadata[i]
         ELSE /\ result = None
              /\ after = metadata

(* --------------------------- create_blank_video ------------------------ *)
\* bytes are numbers 0..255; b'ftyp'
Ftyp == <<102, 116, 121, 112>>
Zeros(n) == [i \in 1..n |-> 0]

\* b'\x00\x00\x00\x20ftypisom\x00\x00\x00\x00' b'isomiso2avc1mp41\x00\x00\x00\x00'
\* b'mdat' + b'\x00' * 100
create_minimal_mp4 ==
  <<0, 0, 0, 32>> \o Ftyp \o <<105, 115, 111, 109>> \o Zeros(4)
    \o <<105, 115, 111, 109>> \o <<105, 115, 111, 50>>
    \o <<97, 118, 99, 49>> \o <<109, 112, 52, 49>> \o Zeros(4)
    \o <<109, 100, 97, 116>> \o Zeros(100)

\* what ffmpeg leaves in the temporary file when it succeeds: an MP4 file,
\* the ftyp box first (brands isom, iso2, avc1, mp41; media data cut short
\* here)
FfmpegMp4 ==
  <<0, 0, 0, 32>> \o Ftyp \o <<105, 115, 111, 109>> \o <<0, 0, 2, 0>>
    \o <<105, 115, 111, 109>> \o <<105, 115, 111, 50>>
    \o <<97, 118, 99, 49>> \o <<109, 112, 52, 49>>
    \o <<0, 0, 0, 8>> \o <<109, 100, 97, 116>>

\* the external tool: it runs and writes the video, is not installed, runs
\* over the timeout, or exits with an error code
FfmpegOutcomes == {"success", "missing", "timeout", "error"}

\* what subprocess.run leaves in tmp_path; after a run that exited with an
\* error the file is still empty as NamedTemporaryFile created it, or holds
\* what was written before the error
TmpFiles(ffmpeg) ==
  IF ffmpeg = "success" THEN {FfmpegMp4}
  ELSE IF ffmpeg = "error" THEN {<<>>, SubSeq(FfmpegMp4, 1, 32)}
  ELSE {<<>>}

\* subprocess.run raises FileNotFoundError or TimeoutExpired; an exit code
\* is not looked at (no check=True)
RunRaises(ffmpeg) == ffmpeg \in {"missing", "timeout"}

\* the bytes create_blank_video returns: only VideoStorage runs ffmpeg and
\* reads the temporary file back, the other backends return the constant
create_blank_video(ffmpeg, tmp) ==
  IF backend = "filesystem"
  THEN IF RunRaises(ffmpeg) THEN create_minimal_mp4 ELSE tmp
  ELSE create_minimal_mp4

(* -------------------------------- C23 ---------------------------------- *)
\* the four bytes of a box size, big-endian
BoxSize(payload) ==
  ((payload[1] * 256 + payload[2]) * 256 + payload[3]) * 256 + payload[4]

\* the payload begins with a whole ftyp box: size, b'ftyp', major brand,
\* minor version
BeginsWithFtyp(payload) ==
  /\ Len(payload) >= 16
  /\ SubSeq(payload, 5, 8) = Ftyp
  /\ BoxSize(payload) >= 16
  /\ BoxSize(payload) <= Len(payload)

\* C23: for every outcome of ffmpeg, create_blank_video returns a non-empty
\* payload that begins with an ftyp box header.
C23_BlankVideoBeginsWithFtyp ==
  \A ffmpeg \in FfmpegOutcomes :
     \A tmp \in TmpFiles(ffmpeg) :
        /\ create_blank_video(ffmpeg, tmp) # <<>>
        /\ BeginsWithFtyp(create_blank_video(ffmpeg, tmp))

(* ----------------------------- get_video_file -------------------------- *)
\* expires_in=3600, ExpiresIn=3600, expiration=3600
SignedUrlSeconds == 3600

\* what get_video_file returns: a local path, a signed URL with its expiry,
\* a public URL, None, or Raised
LocalPath(filename) == [kind |-> "path", filename |-> filename]
SignedUrl(filename) ==
  [kind |-> "signed", filename |-> filename, expires |-> SignedUrlSeconds]
PublicUrl(filename) == [kind |-> "public", filename |-> filename]

RemoteBackends == Backends \ LocalBackends

\* POST /object/sign answers 200 with the URL, or _create_signed_url
\* returns None and get_video_file falls back to the public URL; S3 and
\* Firebase sign in the client
create_signed_url(filename, ioSign) ==
  IF backend = "supabase" /\ ioSign = "fail" THEN None ELSE SignedUrl(filename)

get_video_file(video_id, ioGet, ioSign) ==
  IF ReadRaises(ioGet) THEN Raised
  ELSE IF get_video_info(video_id, ioGet) = None THEN None
  ELSE LET filename == get_video_info(video_id, ioGet).filename
       IN  IF backend \in LocalBackends
           THEN IF filename \in DOMAIN objects
                THEN LocalPath(filename) ELSE None
           ELSE IF create_signed_url(filename, ioSign) # None
                THEN create_signed_url(filename, ioSign)
                ELSE PublicUrl(filename)

(* -------------------------------- C24 ---------------------------------- *)
\* C24: on a remote backend get_video_file of a known id returns a signed
\* URL with an expiry of one hour, never a public URL; on an unknown id
\* every backend returns none.
C24_SignedUrlOnly ==
  \A video_id \in RequestedVideoIds, ioSign \in IoOutcomes :
     IF video_id \in Ids(metadata)
     THEN backend \in RemoteBackends =>
            get_video_file(video_id, "ok", ioSign) =
              [kind |-> "signed",
               filename |-> InfoIn(metadata, video_id).filename,
               expires |-> 3600]
     ELSE get_video_file(video_id, "ok", ioSign) = None

(* ------------------------- create_video_workflow ----------------------- *)
\* the stages in the order create_video_workflow runs them (STEP 1 to
\* STEP 10 of src/main.py)
CodeStages ==
  <<"trend_detection", "research", "script", "voiceover", "subtitles",
    "visual_planning", "metadata", "thumbnail", "video_assembly",
    "analytics">>

\* the fixed output paths: os.path.join(Config.VOICEOVERS_DIR,
\* "main_voiceover.wav"), os.path.join(Config.OUTPUT_DIR, "subtitles.srt"),
\* os.path.join(Config.THUMBNAILS_DIR, "final_thumbnail.png")
VoiceoverPath == "main_voiceover.wav"
SubtitlePath == "subtitles.srt"
FinalThumbnailPath == "final_thumbnail.png"

\* what a run writes: the file made by run r
MadeBy(r) == [made_by |-> r]

\* the language model server: it answers, it cannot be reached, or it
\* answers with an error status
LlmOutcomes == {"ok", "unreachable", "status_500"}
\* the other collaborators (trend sources, Piper, ffprobe, the image
\* generator)
ToolOutcomes == {"ok", "fail"}

\* LLMClient.generate: the text of the answer, "" on a connection error,
\* another exception or a status that is not 200
generate(llm) == IF llm = "ok" THEN "{response}" ELSE ""

\* LLMClient.extract_json: the object between the first "{" and the last
\* "}" of the text, {} if there is none
EmptyObject == [empty_object |-> TRUE]
extract_json(llm) ==
  IF generate(llm) = "" THEN EmptyObject ELSE [response |-> generate(llm)]

\* what an agent hands on: "full" from an answer, "default" for the empty
\* lists and strings it builds from "" and {}
FromText(llm) == IF generate(llm) = "" THEN "default" ELSE "full"
FromJson(llm) == IF extract_json(llm) = EmptyObject THEN "default" ELSE "full"

Started(r, stage) == Append(runs[r].started, stage)
Handed(r, stage, payload) ==
  [s \in DOMAIN runs[r].handed \cup {stage} |->
     IF s = stage THEN payload ELSE runs[r].handed[s]]
Written(path, content) ==
  [p \in DOMAIN pipeline_files \cup {path} |->
     IF p = path THEN content ELSE pipeline_files[p]]

\* lines 61-72: a custom topic skips trend detection
create_video_workflow(r, custom_topic) ==
  /\ runs[r].pc = "idle"
  /\ runs' = [runs EXCEPT ![r].pc =
       IF custom_topic THEN "research" ELSE "trend_detection"]
  /\ UNCHANGED pipeline_files

\* STEP 1, lines 65-72: no trends, the run prints "Exiting" and returns
\* False
trend_detection(r, tool) ==
  /\ runs[r].pc = "trend_detection"
  /\ runs' = [runs EXCEPT ![r] =
       [@ EXCEPT !.started = Started(r, "trend_detection"),
                 !.handed = IF tool = "ok"
                            THEN Handed(r, "trend_detection", "full")
                            ELSE @,
                 !.pc = IF tool = "ok" THEN "research" ELSE "returned_false"]]
  /\ UNCHANGED pipeline_files

\* STEP 2, lines 75-79
research(r, llm) ==
  /\ runs[r].pc = "research"
  /\ runs' = [runs EXCEPT ![r] =
       [@ EXCEPT !.started = Started(r, "research"),
                 !.handed = Handed(r, "research", FromJson(llm)),
                 !.pc = "script"]]
  /\ UNCHANGED pipeline_files

\* STEP 3, lines 82-86
script(r, llm) ==
  /\ runs[r].pc = "script"
  /\ runs' = [runs EXCEPT ![r] =
       [@ EXCEPT !.started = Started(r, "script"),
                 !.handed = Handed(r, "script", FromText(llm)),
                 !.pc = "voiceover"]]
  /\ UNCHANGED pipeline_files

\* STEP 4, lines 89-99: Piper writes voiceover_path, or the run prints
\* "Continuing with dummy file" and writes none
voiceover(r, tool) ==
  /\ runs[r].pc = "voiceover"
  /\ runs' = [runs EXCEPT ![r] =
       [@ EXCEPT !.started = Started(r, "voiceover"),
                 !.handed = IF tool = "ok"
                            THEN Handed(r, "voiceover", "full")
                            ELSE @,
                 !.pc = "subtitles"]]
  /\ pipeline_files' = IF tool = "ok"
                       THEN Written(VoiceoverPath, MadeBy(r))
                       ELSE pipeline_files

\* STEP 5, lines 102-113: subtitles are generated only if a file is there
\* at voiceover_path, and timed against that file
subtitles(r, tool) ==
  /\ runs[r].pc = "subtitles"
  /\ IF VoiceoverPath \in DOMAIN pipeline_files
     THEN /\ runs' = [runs EXCEPT ![r] =
               [@ EXCEPT !.started = Started(r, "subtitles"),
                         !.timed_against = pipeline_files[VoiceoverPath],
                         !.pc = "visual_planning"]]
          /\ pipeline_files' = IF tool = "ok"
                               THEN Written(SubtitlePath, MadeBy(r))
                               ELSE pipeline_files
     ELSE /\ runs' = [runs EXCEPT ![r].pc = "visual_planning"]
          /\ UNCHANGED pipeline_files

\* STEP 6, lines 116-120
visual_planning(r) ==
  /\ runs[r].pc = "visual_planning"
  /\ runs' = [runs EXCEPT ![r] =
       [@ EXCEPT !.started = Started(r, "visual_planning"),
                 !.pc = "metadata"]]
  /\ UNCHANGED pipeline_files

\* STEP 7, lines 123-131
metadata_stage(r, llm) ==
  /\ runs[r].pc = "metadata"
  /\ runs' = [runs EXCEPT ![r] =
       [@ EXCEPT !.started = Started(r, "metadata"),
                 !.handed = Handed(r, "metadata", FromText(llm)),
                 !.pc = "thumbnail"]]
  /\ UNCHANGED pipeline_files

\* STEP 8, lines 134-147: the text is added only if an image was generated
thumbnail(r, tool) ==
  /\ runs[r].pc = "thumbnail"
  /\ runs' = [runs EXCEPT ![r] =
       [@ EXCEPT !.started = Started(r, "thumbnail"),
                 !.pc = "video_assembly"]]
  /\ pipeline_files' = IF tool = "ok"
                       THEN Written(FinalThumbnailPath, MadeBy(r))
                       ELSE pipeline_files

\* STEP 9, lines 150-153
video_assembly(r) ==
  /\ runs[r].pc = "video_assembly"
  /\ runs' = [runs EXCEPT ![r] =
       [@ EXCEPT !.started = Started(r, "video_assembly"),
                 !.pc = "analytics"]]
  /\ UNCHANGED pipeline_files

\* STEP 10, lines 156-172
analytics(r) ==
  /\ runs[r].pc = "analytics"
  /\ runs' = [runs EXCEPT ![r] =
       [@ EXCEPT !.started = Started(r, "analytics"),
                 !.pc = "returned_true"]]
  /\ UNCHANGED pipeline_files

InitPipeline ==
  /\ WorkflowIdle
  /\ StorageIdle
  /\ FilenameIdle
  /\ SelectIdle
  /\ runs = [r \in Runs |-> NoRun]
  /\ pipeline_files = <<>>

NextPipeline ==
  \/ \E r \in Runs, custom_topic \in BOOLEAN :
        /\ create_video_workflow(r, custom_topic)
        /\ UNCHANGED <<workflowVars, storageVars, filenameVars, selectVars>>
  \/ \E r \in Runs, tool \in ToolOutcomes :
        /\ trend_detection(r, tool)
        /\ UNCHANGED <<workflowVars, storageVars, filenameVars, selectVars>>
  \/ \E r \in Runs, llm \in LlmOutcomes :
        /\ research(r, llm)
        /\ UNCHANGED <<workflowVars, storageVars, filenameVars, selectVars>>
  \/ \E r \in Runs, llm \in LlmOutcomes :
        /\ script(r, llm)
        /\ UNCHANGED <<workflowVars, storageVars, filenameVars, selectVars>>
  \/ \E r \in Runs, tool \in ToolOutcomes :
        /\ voiceover(r, tool)
        /\ UNCHANGED <<workflowVars, storageVars, filenameVars, selectVars>>
  \/ \E r \in Runs, tool \in ToolOutcomes :
        /\ subtitles(r, tool)
        /\ UNCHANGED <<workflowVars, storageVars, filenameVars, selectVars>>
  \/ \E r \in Runs :
        /\ visual_planning(r)
        /\ UNCHANGED <<workflowVars, storageVars, filenameVars, selectVars>>
  \/ \E r \in Runs, llm \in LlmOutcomes :
        /\ metadata_stage(r, llm)
        /\ UNCHANGED <<workflowVars, storageVars, filenameVars, selectVars>>
  \/ \E r \in Runs, tool \in ToolOutcomes :
        /\ thumbnail(r, tool)
        /\ UNCHANGED <<workflowVars, storageVars, filenameVars, selectVars>>
  \/ \E r \in Runs :
        /\ video_assembly(r)
        /\ UNCHANGED <<workflowVars, storageVars, filenameVars, selectVars>>
  \/ \E r \in Runs :
        /\ analytics(r)
        /\ UNCHANGED <<workflowVars, storageVars, filenameVars, selectVars>>

SpecPipeline == InitPipeline /\ [][NextPipeline]_vars

(* -------------------------------- C25 ---------------------------------- *)
\* the order the specification gives the stages
SpecifiedStages ==
  <<"trend_detection", "research", "script", "voiceover", "subtitles",
    "visual_planning", "video_assembly", "metadata", "thumbnail", "upload",
    "analytics">>
SpecifiedIndex(stage) ==
  CHOOSE i \in DOMAIN SpecifiedStages : SpecifiedStages[i] = stage

\* C25: within one run the stages start one after the other in the order
\* trend detection (optional), research, script, voiceover, subtitles,
\* visual planning, video assembly, metadata, thumbnail, upload, analytics.
C25_StagesInSpecifiedOrder ==
  \A r \in Runs :
     \A i, j \in DOMAIN runs[r].started :
        i < j => SpecifiedIndex(runs[r].started[i])
                   < SpecifiedIndex(runs[r].started[j])

(* -------------------------------- C26 ---------------------------------- *)
StartedStages(r) == {runs[r].started[i] : i \in DOMAIN runs[r].started}
\* the stages every run has to go through: all but the optional first
RequiredStages == {CodeStages[i] : i \in 2..Len(CodeStages)}

\* C26: whichever single stage fails, the run goes on through every later
\* stage and completes (it never stops early), and the language model
\* client answers "" or {} instead of raising when it cannot be reached.
C26_FailedStageDoesNotStopRun ==
  /\ \A r \in Runs :
        /\ runs[r].pc # "returned_false"
        /\ runs[r].pc = "returned_true" => RequiredStages \subseteq StartedStages(r)
  /\ \A llm \in LlmOutcomes \ {"ok"} :
        /\ generate(llm) = ""
        /\ extract_json(llm) = EmptyObject

(* -------------------------------- C28 ---------------------------------- *)
\* C28: two concurrent runs share no file: the subtitles of a run are
\* timed against the voiceover that run generated (or none), and the
\* voiceover a run generated is what lies at its voiceover path.
C28_RunsShareNoFile ==
  \A r \in Runs :
     /\ runs[r].timed_against \in {None, MadeBy(r)}
     /\ "voiceover" \in DOMAIN runs[r].handed =>
           pipeline_files[VoiceoverPath] = MadeBy(r)

(* -------------------------------- C27 ---------------------------------- *)
\* the step holds a diagnostic of a failed generation
Diagnosed(s) == "error" \in DOMAIN s.data

\* C27: after a POST whose generation fails (research, script, metadata or
\* video) the step holds a diagnostic of the failure: it is not left as it
\* was with none.
C27_FailedGenerationIsRecorded ==
  \A w \in DOMAIN WORKFLOWS, step \in GateSteps, has_ai_image \in BOOLEAN :
     Diagnosed(StepsAfterPost(w, step, "raise", has_ai_image)[step])

(* -------------------------------- C29 ---------------------------------- *)
\* the video step's data holds a file reference, the metadata step's data
\* holds title, description and tags
ReadyToPublish(steps) ==
  /\ "file" \in DOMAIN steps["video"].data
  /\ "title" \in DOMAIN steps["metadata"].data
  /\ "description" \in DOMAIN steps["metadata"].data
  /\ "tags" \in DOMAIN steps["metadata"].data

\* C29: the upload step becomes `uploaded` only in a step taken where the
\* video data holds a file reference and the metadata data holds title,
\* description and tags; while either is missing no final_upload, whatever
\* the request, changes any workflow.
C29_UploadedOnlyWithFileAndMetadata ==
  /\ [](\A w \in DOMAIN WORKFLOWS, kind \in RequestKinds :
          ~ReadyToPublish(StepsOf(w)) =>
             /\ after_upload(w, kind) = WORKFLOWS
             /\ upload_response(w, kind).code # 200)
  /\ [][\A w \in DOMAIN WORKFLOWS' :
          (/\ WORKFLOWS'[w].steps["upload"].status = "uploaded"
           /\ ~(w \in DOMAIN WORKFLOWS /\ StatusIn(w, "upload") = "uploaded"))
          => (/\ w \in DOMAIN WORKFLOWS
              /\ ReadyToPublish(StepsOf(w)))]_vars

\* a workflow was uploaded, and one whose video generation failed and was
\* approved all the same is refused
C29_Witness ==
  \E w \in DOMAIN WORKFLOWS :
     /\ StatusIn(w, "upload") = "uploaded"
     /\ AllGatesApproved(w)
     /\ StepsOf(w)["video"].data = VideoErrorData
     /\ upload_response(w, "json").code = 400

(* -------------------------------- C30 ---------------------------------- *)
\* the reasons final_upload fails for: the workflow is unknown, the request
\* is no JSON request or its body cannot be read, a step is not approved,
\* there is no video file, or reading the metadata raises
UploadFails(workflow_id, kind) ==
  \/ workflow_id \notin DOMAIN WORKFLOWS
  \/ kind # "json"
  \/ ~AllGatesApproved(workflow_id)
  \/ ~ReadyToPublish(StepsOf(workflow_id))

\* C30: a final_upload that fails, for whichever reason, answers with an
\* error and leaves the steps of every workflow, the upload step's status
\* and data included, exactly as they were.
C30_FailedUploadChangesNothing ==
  \A workflow_id \in RequestIds, kind \in RequestKinds :
     UploadFails(workflow_id, kind) =>
        /\ upload_response(workflow_id, kind).code \in {400, 404, 500}
        /\ after_upload(workflow_id, kind) = WORKFLOWS

\* an uploaded workflow whose video step was generated again, with an
\* error: a further final_upload fails, the publish result is still there
C30_Witness ==
  \E w \in DOMAIN WORKFLOWS :
     /\ StatusIn(w, "upload") = "uploaded"
     /\ StepsOf(w)["upload"].data.video_id = "dQw4w9WgXcQ"
     /\ StatusIn(w, "video") = "completed"
     /\ UploadFails(w, "json")
     /\ upload_response(w, "json").code = 400

====
